---- MODULE Spec2Model ----
(***************************************************************************)
(* Model of the herbal supply-chain ledger of src/script.js: the class     *)
(* Blockchain (lines 1000-1203) with its four smart-contract methods       *)
(* registerHerb, verifyHerbReceipt, transferHerb and useHerbInMedicine.    *)
(*                                                                         *)
(* Quantities are integers (JavaScript numbers restricted to integral      *)
(* values, on which the arithmetic of the methods is exact).  A method     *)
(* call is one atomic step (JavaScript runs a call to completion).  A call *)
(* that throws leaves the mutations made before the throw in place and     *)
(* has the result kind "TypeError".  A call that changes nothing is a      *)
(* stuttering step; what it returns is the value of the method's operator  *)
(* in that state.                                                          *)
(*                                                                         *)
(* Spec drives the engine by direct calls with any actor.  SpecUI drives   *)
(* it through the page (lines 1208-2138): the click handlers with their    *)
(* fixed actors, the quality check and its delayed analysis, saveData, and *)
(* the page load that builds the engine from the saved item.               *)
(***************************************************************************)
EXTENDS Integers, Sequences, FiniteSets, TLC

VARIABLES chain, metadata, inventories, reputationScores, shared,
          saved, collectorQualityData, supplierQualityData,
          manufacturerQualityData, timers

\* the page around the engine: the localStorage item, the three quality
\* results and the pending setTimeout callbacks
uiVars == <<saved, collectorQualityData, supplierQualityData,
            manufacturerQualityData, timers>>

vars == <<chain, metadata, inventories, reputationScores, shared, saved,
          collectorQualityData, supplierQualityData, manufacturerQualityData,
          timers>>

(***************************************************************************)
(* Bounds of the model.                                                    *)
(***************************************************************************)
MaxHerbs == 2
MaxOps == 4
MaxBatches == 2
MaxTimers == 1
MaxPageHerbs == 1
MaxPageOps == 4
MaxPageBatches == 1

(***************************************************************************)
(* Program constants.                                                      *)
(***************************************************************************)
InitialScore == 100
Penalty == 10
Reward == 1
TolerancePct == 2
MinManufacturerScore == 60

(***************************************************************************)
(* Input domains.                                                          *)
(***************************************************************************)
HerbIDs == 1..MaxHerbs
SavedBase == 100
SavedFrauds == InitialScore \div Penalty
SavedHerb == SavedBase + 1
ArgHerbs == HerbIDs \cup {SavedHerb}
ActorIDs == {"COLLECTOR-001", "SUPPLIER-001", "MANU-001", "OTHER-001"}
Collectors == {"COLLECTOR-001"}
Verifiers == {"SUPPLIER-001", "OTHER-001"}
Senders == {"SUPPLIER-001", "MANU-001"}
Receivers == {"MANU-001", "OTHER-001"}
Manufacturers == {"MANU-001", "COLLECTOR-001"}
Units == {"Kg", "Gram"}
ClaimedQuantities == {100}
MeasuredQuantities == {97, 98, 102}
ProbeQuantities == 95..105
Weights == {-5, 40, 60}
UnitsUsed == {30}
TransferScores == {65, 75}
\* the weight typed and the score of the snapshot, for the transfers that
\* are steps
TransferInputs ==
    {[weight |-> -5, score |-> 75], [weight |-> 40, score |-> 65],
     [weight |-> 60, score |-> 75]}
ManufacturerScores == {55, 65}
RegisterQuality == [score |-> 80]
Place == "Jaipur"

\* the name and the unit the collector enters for herb h
NameOf(h) == IF h % 2 = 1 THEN "Tulsi" ELSE "Neem"

UnitOf(h) == IF h % 2 = 1 THEN "Kg" ELSE "Gram"

(***************************************************************************)
(* Helpers for JavaScript objects used as maps.                            *)
(***************************************************************************)
Put(f, k, v) == [x \in (DOMAIN f) \cup {k} |-> IF x = k THEN v ELSE f[x]]

Abs(x) == IF x < 0 THEN -x ELSE x

\* parseFloat on a number (or on its decimal string) yields that number
parseFloat(x) == x

EmptyMap == [x \in {} |-> 0]

Result(S, ok, k) == [st |-> S, success |-> ok, kind |-> k]

(***************************************************************************)
(* Block, Blockchain.constructor, addBlock                                 *)
(***************************************************************************)
\* A hash or previousHash string is a tuple: << >> is the empty string, <<"0">>
\* the string "0", and <<"btoa", ...>> a string of 32 base64 characters.
\* btoa(previousHash + timestamp + JSON.stringify(data)).substr(0, 32) encodes
\* the first 24 bytes of the string: when previousHash is a hash of 32
\* characters they all come from previousHash, and nothing of the timestamp
\* and of the data enters the result
calculateHash_WholeString(previousHash, timestamp, data) ==
    <<"btoa", previousHash, timestamp, data>>

calculateHash(previousHash, timestamp, data) ==
    IF Len(previousHash) < 2
    THEN <<"btoa", previousHash, timestamp, data>>
    ELSE <<"btoa", previousHash>>

\* Date.now(), not distinguished from one call to the next
DateNow == "Date.now()"

Block(timestamp, data, previousHash) ==
    [timestamp |-> timestamp, data |-> data, previousHash |-> previousHash,
     hash |-> calculateHash(previousHash, timestamp, data)]

\* the data of the genesis block is a string in the code; it is a record
\* here so that every block's data has a type field
createGenesisBlock == Block("2025-01-01", [type |-> "genesis"], <<"0">>)

getLatestBlock(ch) == ch[Len(ch)]

getInitialReputation ==
    [a \in {"COLLECTOR-001", "SUPPLIER-001", "MANU-001"} |-> InitialScore]

addBlock_NoLink(ch, newBlock) == Append(ch, newBlock)

addBlock(ch, newBlock) ==
    LET previousHash == getLatestBlock(ch).hash
    IN Append(ch, [newBlock EXCEPT
                     !.previousHash = previousHash,
                     !.hash = calculateHash(previousHash, newBlock.timestamp,
                                            newBlock.data)])

\* the state "new Blockchain()" builds when localStorage holds no snapshot
FreshState ==
    [chain |-> <<createGenesisBlock>>,
     metadata |-> EmptyMap,
     inventories |-> [a \in {"SUPPLIER-001", "MANU-001"} |-> EmptyMap],
     reputationScores |-> getInitialReputation,
     shared |-> EmptyMap]

\* this.reputationScores[id] || 100 : a missing score and the score 0 are
\* both falsy
ScoreOrDefault(rep, id) ==
    IF id \in DOMAIN rep /\ rep[id] # 0 THEN rep[id] ELSE InitialScore

\* this.addBlock(new Block(..., data)); masterHerb.history.push(data)
PushRecord(S, herbID, data) ==
    [S EXCEPT !.chain = addBlock(S.chain, Block(DateNow, data, << >>)),
              !.metadata[herbID].history = Append(@, data)]

(***************************************************************************)
(* registerHerb                                                            *)
(***************************************************************************)
RegistrationData(collectorID, herbID, name, location, quantity, unitType, quality) ==
    [type |-> "registerHerb", collectorID |-> collectorID, herbID |-> herbID,
     name |-> name, location |-> location, quantity |-> parseFloat(quantity),
     unitType |-> unitType, quality |-> quality,
     status |-> "pending_verification"]

Registered_CreditsSupplier(S, herbID, data) ==
    [S EXCEPT !.chain = addBlock(S.chain, Block(DateNow, data, << >>)),
              !.metadata = Put(S.metadata, herbID,
                               [name |-> data.name, location |-> data.location,
                                quality |-> data.quality, history |-> <<data>>,
                                status |-> "pending_verification"]),
              !.shared = Put(S.shared, herbID, Len(S.chain) + 1),
              !.inventories["SUPPLIER-001"] =
                  Put(@, herbID, [name |-> data.name, quantity |-> data.quantity,
                                  unitType |-> data.unitType])]

Registered_InitialisesScore(S, herbID, data) ==
    [S EXCEPT !.chain = addBlock(S.chain, Block(DateNow, data, << >>)),
              !.metadata = Put(S.metadata, herbID,
                               [name |-> data.name, location |-> data.location,
                                quality |-> data.quality, history |-> <<data>>,
                                status |-> "pending_verification"]),
              !.shared = Put(S.shared, herbID, Len(S.chain) + 1),
              !.reputationScores =
                  Put(@, data.collectorID, ScoreOrDefault(@, data.collectorID))]

\* the new block and the master record; history[0] is the object stored in
\* the block (shared[herbID] is the index of that block)
Registered(S, herbID, data) ==
    [S EXCEPT !.chain = addBlock(S.chain, Block(DateNow, data, << >>)),
              !.metadata = Put(S.metadata, herbID,
                               [name |-> data.name, location |-> data.location,
                                quality |-> data.quality, history |-> <<data>>,
                                status |-> "pending_verification"]),
              !.shared = Put(S.shared, herbID, Len(S.chain) + 1)]

registerHerb_NoDuplicateCheck(S, collectorID, herbID, name, location, quantity, unitType, quality) ==
    Result(Registered(S, herbID,
                      RegistrationData(collectorID, herbID, name, location,
                                       quantity, unitType, quality)),
           TRUE, "Registered")

registerHerb(S, collectorID, herbID, name, location, quantity, unitType, quality) ==
    IF herbID \in DOMAIN S.metadata
    THEN Result(S, FALSE, "DuplicateItem")
    ELSE Result(Registered(S, herbID,
                           RegistrationData(collectorID, herbID, name, location,
                                            quantity, unitType, quality)),
                TRUE, "Registered")

(***************************************************************************)
(* verifyHerbReceipt                                                       *)
(***************************************************************************)
AwaitingVerification_AnyStatus(S, herbID) ==
    herbID \in DOMAIN S.metadata

\* masterHerb && masterHerb.status === 'pending_verification'
AwaitingVerification(S, herbID) ==
    /\ herbID \in DOMAIN S.metadata
    /\ S.metadata[herbID].status = "pending_verification"

OutsideTolerance_Inclusive(claimedQuantity, measuredQuantity) ==
    Abs(claimedQuantity - measuredQuantity) * 100 >= claimedQuantity * TolerancePct

\* difference > tolerance, with tolerance = claimedQuantity * 0.02
OutsideTolerance(claimedQuantity, measuredQuantity) ==
    Abs(claimedQuantity - measuredQuantity) * 100 > claimedQuantity * TolerancePct

SetStatus_RecordOnly(S, herbID, s) ==
    LET withRecord == [S EXCEPT !.metadata[herbID].history[1].status = s]
    IN IF S.shared[herbID] # 0
       THEN [withRecord EXCEPT !.chain[S.shared[herbID]].data.status = s]
       ELSE withRecord

\* masterHerb.status = s; registrationBlockData.status = s : history[0] is
\* the object stored in the registration block as long as the state has not
\* been rebuilt from a snapshot (shared[herbID] is that block's index, or 0)
SetStatus(S, herbID, s) ==
    LET withMaster == [S EXCEPT !.metadata[herbID].status = s,
                                !.metadata[herbID].history[1].status = s]
    IN IF S.shared[herbID] # 0
       THEN [withMaster EXCEPT !.chain[S.shared[herbID]].data.status = s]
       ELSE withMaster

Disputed_CreditsMeasured(S, herbID, measuredQuantity) ==
    LET registrationBlockData == S.metadata[herbID].history[1]
        claimedQuantity == registrationBlockData.quantity
        collectorID == registrationBlockData.collectorID
        S1 == SetStatus(S, herbID, "disputed")
        S2 == [S1 EXCEPT !.reputationScores =
                 Put(@, collectorID, ScoreOrDefault(@, collectorID) - Penalty)]
        data == [type |-> "fraudAlert", herbID |-> herbID,
                 claimedQuantity |-> claimedQuantity,
                 measuredQuantity |-> measuredQuantity]
        S3 == PushRecord(S2, herbID, data)
        entry == [name |-> S.metadata[herbID].name,
                  quantity |-> parseFloat(measuredQuantity),
                  unitType |-> registrationBlockData.unitType]
    IN Result([S3 EXCEPT !.inventories["SUPPLIER-001"] = Put(@, herbID, entry)],
              FALSE, "FraudDetected")

Disputed_StatusUnchanged(S, herbID, measuredQuantity) ==
    LET registrationBlockData == S.metadata[herbID].history[1]
        claimedQuantity == registrationBlockData.quantity
        collectorID == registrationBlockData.collectorID
        S2 == [S EXCEPT !.reputationScores =
                 Put(@, collectorID, ScoreOrDefault(@, collectorID) - Penalty)]
        data == [type |-> "fraudAlert", herbID |-> herbID,
                 claimedQuantity |-> claimedQuantity,
                 measuredQuantity |-> measuredQuantity]
    IN Result(PushRecord(S2, herbID, data), FALSE, "FraudDetected")

\* the branch "difference > tolerance"
Disputed(S, herbID, measuredQuantity) ==
    LET registrationBlockData == S.metadata[herbID].history[1]
        claimedQuantity == registrationBlockData.quantity
        collectorID == registrationBlockData.collectorID
        S1 == SetStatus(S, herbID, "disputed")
        S2 == [S1 EXCEPT !.reputationScores =
                 Put(@, collectorID, ScoreOrDefault(@, collectorID) - Penalty)]
        data == [type |-> "fraudAlert", herbID |-> herbID,
                 claimedQuantity |-> claimedQuantity,
                 measuredQuantity |-> measuredQuantity]
    IN Result(PushRecord(S2, herbID, data), FALSE, "FraudDetected")

\* the branch "else": the assignment to this.inventories[supplierID][herbID]
\* throws when this.inventories[supplierID] is undefined, after the
\* mutations before it
Verified(S, supplierID, herbID, measuredQuantity) ==
    LET registrationBlockData == S.metadata[herbID].history[1]
        collectorID == registrationBlockData.collectorID
        S1 == SetStatus(S, herbID, "verified")
        S2 == [S1 EXCEPT !.reputationScores =
                 Put(@, collectorID, ScoreOrDefault(@, collectorID) + Reward)]
        data == [type |-> "verifyReceipt", supplierID |-> supplierID,
                 herbID |-> herbID,
                 verifiedQuantity |-> parseFloat(measuredQuantity)]
        S3 == PushRecord(S2, herbID, data)
        entry == [name |-> S.metadata[herbID].name,
                  quantity |-> parseFloat(measuredQuantity),
                  unitType |-> registrationBlockData.unitType]
    IN IF supplierID \notin DOMAIN S3.inventories
       THEN Result(S3, FALSE, "TypeError")
       ELSE Result([S3 EXCEPT !.inventories[supplierID] = Put(@, herbID, entry)],
                   TRUE, "Verified")

verifyHerbReceipt_CreditBeforeCheck(S, supplierID, herbID, measuredQuantity) ==
    IF ~AwaitingVerification(S, herbID)
    THEN Result(S, FALSE, "NotAwaitingVerification")
    ELSE IF OutsideTolerance(S.metadata[herbID].history[1].quantity, measuredQuantity)
    THEN Disputed(Verified(S, supplierID, herbID, measuredQuantity).st,
                  herbID, measuredQuantity)
    ELSE Verified(S, supplierID, herbID, measuredQuantity)

verifyHerbReceipt(S, supplierID, herbID, measuredQuantity) ==
    IF ~AwaitingVerification(S, herbID)
    THEN Result(S, FALSE, "NotAwaitingVerification")
    ELSE IF OutsideTolerance(S.metadata[herbID].history[1].quantity, measuredQuantity)
    THEN Disputed(S, herbID, measuredQuantity)
    ELSE Verified(S, supplierID, herbID, measuredQuantity)

(***************************************************************************)
(* transferHerb                                                            *)
(***************************************************************************)
Transferred_NoDebit(S, fromID, toID, herbID, transferWeight, location, unitType, supplierQuality) ==
    LET supplierHerb == S.inventories[fromID][herbID]
        masterHerb == S.metadata[herbID]
        inv2 == IF toID \in DOMAIN S.inventories THEN S.inventories
                ELSE Put(S.inventories, toID, EmptyMap)
        inv3 == IF herbID \in DOMAIN inv2[toID] THEN inv2
                ELSE [inv2 EXCEPT ![toID] =
                        Put(@, herbID, [name |-> masterHerb.name, quantity |-> 0,
                                        unitType |-> supplierHerb.unitType])]
        inv4 == [inv3 EXCEPT ![toID][herbID].quantity = @ + transferWeight]
        data == [type |-> "transferHerb", fromID |-> fromID, toID |-> toID,
                 herbID |-> herbID, weight |-> transferWeight,
                 unitType |-> unitType, location |-> location,
                 supplierQuality |-> supplierQuality]
    IN PushRecord([S EXCEPT !.inventories = inv4], herbID, data)

\* the debit, the credit (creating the receiver's inventory and entry when
\* absent), the new block and the history entry
Transferred(S, fromID, toID, herbID, transferWeight, location, unitType, supplierQuality) ==
    LET supplierHerb == S.inventories[fromID][herbID]
        masterHerb == S.metadata[herbID]
        inv1 == [S.inventories EXCEPT ![fromID][herbID].quantity = @ - transferWeight]
        inv2 == IF toID \in DOMAIN inv1 THEN inv1 ELSE Put(inv1, toID, EmptyMap)
        inv3 == IF herbID \in DOMAIN inv2[toID] THEN inv2
                ELSE [inv2 EXCEPT ![toID] =
                        Put(@, herbID, [name |-> masterHerb.name, quantity |-> 0,
                                        unitType |-> supplierHerb.unitType])]
        inv4 == [inv3 EXCEPT ![toID][herbID].quantity = @ + transferWeight]
        data == [type |-> "transferHerb", fromID |-> fromID, toID |-> toID,
                 herbID |-> herbID, weight |-> transferWeight,
                 unitType |-> unitType, location |-> location,
                 supplierQuality |-> supplierQuality]
    IN PushRecord([S EXCEPT !.inventories = inv4], herbID, data)

transferHerb_NoUnitCheck(S, fromID, toID, herbID, weight, location, unitType, supplierQuality) ==
    IF fromID \notin DOMAIN S.inventories
       \/ herbID \notin DOMAIN S.inventories[fromID]
    THEN Result(S, FALSE, "ItemNotFound")
    ELSE IF herbID \notin DOMAIN S.metadata
    THEN Result(S, FALSE, "TypeError")
    ELSE IF S.metadata[herbID].status # "verified"
    THEN Result(S, FALSE, "ItemNotTransferable")
    ELSE IF parseFloat(weight) > S.inventories[fromID][herbID].quantity
    THEN Result(S, FALSE, "InsufficientQuantity")
    ELSE Result(Transferred(S, fromID, toID, herbID, parseFloat(weight), location,
                            unitType, supplierQuality),
                TRUE, "Transferred")

transferHerb_NoQuantityCheck(S, fromID, toID, herbID, weight, location, unitType, supplierQuality) ==
    IF fromID \notin DOMAIN S.inventories
       \/ herbID \notin DOMAIN S.inventories[fromID]
    THEN Result(S, FALSE, "ItemNotFound")
    ELSE IF herbID \notin DOMAIN S.metadata
    THEN Result(S, FALSE, "TypeError")
    ELSE IF S.metadata[herbID].status # "verified"
    THEN Result(S, FALSE, "ItemNotTransferable")
    ELSE IF S.inventories[fromID][herbID].unitType # unitType
    THEN Result(S, FALSE, "UnitMismatch")
    ELSE Result(Transferred(S, fromID, toID, herbID, parseFloat(weight), location,
                            unitType, supplierQuality),
                TRUE, "Transferred")

transferHerb(S, fromID, toID, herbID, weight, location, unitType, supplierQuality) ==
    IF fromID \notin DOMAIN S.inventories
       \/ herbID \notin DOMAIN S.inventories[fromID]
    THEN Result(S, FALSE, "ItemNotFound")
    ELSE IF herbID \notin DOMAIN S.metadata
    THEN \* masterHerb is undefined: reading masterHerb.status throws
         Result(S, FALSE, "TypeError")
    ELSE IF S.metadata[herbID].status # "verified"
    THEN Result(S, FALSE, "ItemNotTransferable")
    ELSE IF S.inventories[fromID][herbID].unitType # unitType
    THEN Result(S, FALSE, "UnitMismatch")
    ELSE IF parseFloat(weight) > S.inventories[fromID][herbID].quantity
    THEN Result(S, FALSE, "InsufficientQuantity")
    ELSE Result(Transferred(S, fromID, toID, herbID, parseFloat(weight), location,
                            unitType, supplierQuality),
                TRUE, "Transferred")

(***************************************************************************)
(* useHerbInMedicine                                                       *)
(***************************************************************************)
\* one iteration of the validation loop: "ok", "invalid", or "throw" when
\* the message for a herb missing from the inventory reads .unitType of
\* undefined
CheckBatch(manufacturerInventory, batch) ==
    IF batch.herbID \notin DOMAIN manufacturerInventory THEN "throw"
    ELSE IF manufacturerInventory[batch.herbID].quantity < parseFloat(batch.unitsUsed)
    THEN "invalid"
    ELSE IF manufacturerInventory[batch.herbID].unitType # batch.unitType
    THEN "invalid"
    ELSE "ok"

\* the entries pushed onto invalidHerbs, in order
InvalidHerbs(manufacturerInventory, usedBatches) ==
    SelectSeq(usedBatches, LAMBDA b : CheckBatch(manufacturerInventory, b) = "invalid")

RECURSIVE DebitAll(_, _, _, _, _)
\* usedBatches.forEach(...) from index i on
DebitAll(S, manufacturerID, usedBatches, data, i) ==
    IF i > Len(usedBatches) THEN S
    ELSE LET batch == usedBatches[i]
             S1 == IF batch.herbID \in DOMAIN S.inventories[manufacturerID]
                   THEN [S EXCEPT
                           !.inventories[manufacturerID][batch.herbID].quantity =
                               @ - parseFloat(batch.unitsUsed),
                           !.metadata[batch.herbID].history = Append(@, data)]
                   ELSE S
         IN DebitAll(S1, manufacturerID, usedBatches, data, i + 1)

useHerbInMedicine_GateLast(S, batchID, manufacturerID, location, usedBatches, finalWeight, finalUnit, manufacturerQuality) ==
    IF manufacturerID \notin DOMAIN S.inventories
    THEN Result(S, FALSE, "ManufacturerNotFound")
    ELSE IF \E i \in 1..Len(usedBatches) :
              CheckBatch(S.inventories[manufacturerID], usedBatches[i]) = "throw"
    THEN Result(S, FALSE, "TypeError")
    ELSE IF Len(InvalidHerbs(S.inventories[manufacturerID], usedBatches)) > 0
    THEN Result(S, FALSE, "InsufficientOrMismatchedBatches")
    ELSE IF manufacturerQuality.score < MinManufacturerScore
    THEN Result(S, FALSE, "QualityBelowThreshold")
    ELSE LET data == [type |-> "useHerb", manufacturerID |-> manufacturerID,
                      batchID |-> batchID, location |-> location,
                      usedBatches |-> usedBatches, finalWeight |-> finalWeight,
                      finalUnit |-> finalUnit,
                      manufacturerQuality |-> manufacturerQuality]
             S1 == [S EXCEPT !.chain = addBlock(S.chain, Block(DateNow, data, << >>))]
         IN Result(DebitAll(S1, manufacturerID, usedBatches, data, 1),
                   TRUE, "Produced")

useHerbInMedicine_SkipFirstDebit(S, batchID, manufacturerID, location, usedBatches, finalWeight, finalUnit, manufacturerQuality) ==
    IF manufacturerQuality.score < MinManufacturerScore
    THEN Result(S, FALSE, "QualityBelowThreshold")
    ELSE IF manufacturerID \notin DOMAIN S.inventories
    THEN Result(S, FALSE, "ManufacturerNotFound")
    ELSE IF \E i \in 1..Len(usedBatches) :
              CheckBatch(S.inventories[manufacturerID], usedBatches[i]) = "throw"
    THEN Result(S, FALSE, "TypeError")
    ELSE IF Len(InvalidHerbs(S.inventories[manufacturerID], usedBatches)) > 0
    THEN Result(S, FALSE, "InsufficientOrMismatchedBatches")
    ELSE LET data == [type |-> "useHerb", manufacturerID |-> manufacturerID,
                      batchID |-> batchID, location |-> location,
                      usedBatches |-> usedBatches, finalWeight |-> finalWeight,
                      finalUnit |-> finalUnit,
                      manufacturerQuality |-> manufacturerQuality]
             S1 == [S EXCEPT !.chain = addBlock(S.chain, Block(DateNow, data, << >>))]
         IN Result(DebitAll(S1, manufacturerID, usedBatches, data, 2),
                   TRUE, "Produced")

useHerbInMedicine(S, batchID, manufacturerID, location, usedBatches, finalWeight, finalUnit, manufacturerQuality) ==
    IF manufacturerQuality.score < MinManufacturerScore
    THEN Result(S, FALSE, "QualityBelowThreshold")
    ELSE IF manufacturerID \notin DOMAIN S.inventories
    THEN Result(S, FALSE, "ManufacturerNotFound")
    ELSE IF \E i \in 1..Len(usedBatches) :
              CheckBatch(S.inventories[manufacturerID], usedBatches[i]) = "throw"
    THEN Result(S, FALSE, "TypeError")
    ELSE IF Len(InvalidHerbs(S.inventories[manufacturerID], usedBatches)) > 0
    THEN Result(S, FALSE, "InsufficientOrMismatchedBatches")
    ELSE LET data == [type |-> "useHerb", manufacturerID |-> manufacturerID,
                      batchID |-> batchID, location |-> location,
                      usedBatches |-> usedBatches, finalWeight |-> finalWeight,
                      finalUnit |-> finalUnit,
                      manufacturerQuality |-> manufacturerQuality]
             S1 == [S EXCEPT !.chain = addBlock(S.chain, Block(DateNow, data, << >>))]
         IN Result(DebitAll(S1, manufacturerID, usedBatches, data, 1),
                   TRUE, "Produced")

(***************************************************************************)
(* The produce-medicine handler mints, after a successful consume, one QR  *)
(* code per whole unit of the final weight; its unit id is the batch id    *)
(* followed by the number of the unit.  The final weights of the model are *)
(* whole numbers, which Math.floor leaves as they are.                     *)
(***************************************************************************)
qrCodeCount(finalWeight) == finalWeight

MintedUnits(batchID, finalWeight) ==
    {<<batchID, i>> : i \in 1..qrCodeCount(finalWeight)}

\* chain.find(...): the index of the first UseHerb block with that batch
\* id, 0 when there is none
useBlock(ch, batchID) ==
    LET found == {i \in 1..Len(ch) : /\ ch[i].data.type = "useHerb"
                                     /\ ch[i].data.batchID = batchID}
    IN IF found = {} THEN 0
       ELSE CHOOSE i \in found : \A j \in found : i <= j

(***************************************************************************)
(* processQrData on the object parsed from a QR code: the state it leaves  *)
(* and the content it renders.  It assigns nothing but the trace panel.    *)
(***************************************************************************)
processQrData(S, qrData) ==
    IF qrData.type # "medicine"
    THEN [st |-> S, content |-> <<"InvalidQrCode">>]
    ELSE LET k == useBlock(S.chain, qrData.batchID)
         IN IF k = 0
            THEN [st |-> S,
                  content |-> <<"NoHerbRecords", qrData.batchID, qrData.unitID>>]
            ELSE LET used == S.chain[k].data.usedBatches
                     known == SelectSeq(used,
                                  LAMBDA b : b.herbID \in DOMAIN S.metadata)
                 IN [st |-> S,
                     content |-> <<"Trace", qrData.batchID, qrData.unitID,
                                   S.chain[k].data.location,
                                   [i \in 1..Len(known) |->
                                       <<known[i],
                                         S.metadata[known[i].herbID].name,
                                         S.metadata[known[i].herbID].history>>]>>]

(***************************************************************************)
(* A snapshot written by saveData in an earlier session and read back by   *)
(* the constructor: SavedFrauds herbs registered by COLLECTOR-001 and      *)
(* disputed by SUPPLIER-001.  JSON.parse builds fresh objects, so no       *)
(* history entry is the object of a chain block any more.                  *)
(***************************************************************************)
RECURSIVE Replay(_, _)
Replay(S, n) ==
    IF n = 0 THEN S
    ELSE LET P == Replay(S, n - 1)
             R == registerHerb(P, "COLLECTOR-001", SavedBase + n, NameOf(n),
                               Place, 100, UnitOf(n), RegisterQuality).st
         IN verifyHerbReceipt(R, "SUPPLIER-001", SavedBase + n, 50).st

\* JSON.parse(JSON.stringify(state))
Reloaded(S) == [S EXCEPT !.shared = [h \in DOMAIN S.shared |-> 0]]

SavedState == Reloaded(Replay(FreshState, SavedFrauds))

(***************************************************************************)
(* localStorage holds nothing (<< >>, getItem returns null) or one item    *)
(* (<<item>>); a quality result is null (<< >>) or one object.             *)
(***************************************************************************)
Null == << >>

\* saveData: the item is the JSON text of the four stores; the text does
\* not tell which objects were the same object
saveData(S) ==
    <<[chain |-> S.chain, metadata |-> S.metadata,
       inventories |-> S.inventories, reputationScores |-> S.reputationScores]>>

\* an item written before the reputation ledger existed
WithoutReputation(item) ==
    <<[chain |-> item[1].chain, metadata |-> item[1].metadata,
       inventories |-> item[1].inventories]>>

constructor_AlwaysInitialReputation(savedData) ==
    IF savedData = Null THEN FreshState
    ELSE LET parsedData == savedData[1]
         IN [chain |-> parsedData.chain, metadata |-> parsedData.metadata,
             inventories |-> parsedData.inventories,
             reputationScores |-> getInitialReputation,
             shared |-> [h \in DOMAIN parsedData.metadata |-> 0]]

\* new Blockchain() with savedData = localStorage.getItem('herbalChainData')
constructor(savedData) ==
    IF savedData = Null THEN FreshState
    ELSE LET parsedData == savedData[1]
         IN [chain |-> parsedData.chain, metadata |-> parsedData.metadata,
             inventories |-> parsedData.inventories,
             reputationScores |->
                 IF "reputationScores" \in DOMAIN parsedData
                 THEN parsedData.reputationScores
                 ELSE getInitialReputation,
             shared |-> [h \in DOMAIN parsedData.metadata |-> 0]]

(***************************************************************************)
(* The state machine.                                                      *)
(***************************************************************************)
Engine ==
    [chain |-> chain, metadata |-> metadata, inventories |-> inventories,
     reputationScores |-> reputationScores, shared |-> shared]

Install(S) ==
    /\ chain' = S.chain
    /\ metadata' = S.metadata
    /\ inventories' = S.inventories
    /\ reputationScores' = S.reputationScores
    /\ shared' = S.shared

Init ==
    \E S \in {FreshState, SavedState} :
       /\ chain = S.chain
       /\ metadata = S.metadata
       /\ inventories = S.inventories
       /\ reputationScores = S.reputationScores
       /\ shared = S.shared
       /\ saved = IF S = FreshState THEN Null ELSE saveData(S)
       /\ collectorQualityData = Null
       /\ supplierQualityData = Null
       /\ manufacturerQualityData = Null
       /\ timers = << >>

\* the number of blocks the state started with
BaseLen == IF SavedBase + 2 \in DOMAIN metadata THEN 1 + 2 * SavedFrauds ELSE 1

CanCall == Len(chain) < BaseLen + MaxOps

Register ==
    /\ CanCall
    /\ \E collectorID \in Collectors, herbID \in HerbIDs,
          quantity \in ClaimedQuantities :
          Install(registerHerb(Engine, collectorID, herbID, NameOf(herbID), Place,
                               quantity, UnitOf(herbID), RegisterQuality).st)
    /\ UNCHANGED uiVars

VerifyReceipt ==
    /\ CanCall
    /\ \E supplierID \in Verifiers, herbID \in HerbIDs,
          measuredQuantity \in MeasuredQuantities :
          Install(verifyHerbReceipt(Engine, supplierID, herbID, measuredQuantity).st)
    /\ UNCHANGED uiVars

Transfer ==
    /\ CanCall
    /\ \E fromID \in Senders, toID \in Receivers, herbID \in HerbIDs,
          in \in TransferInputs, unitType \in Units :
          Install(transferHerb(Engine, fromID, toID, herbID, in.weight, Place,
                               unitType, [score |-> in.score]).st)
    /\ UNCHANGED uiVars

BatchEntries == [herbID : HerbIDs, unitsUsed : UnitsUsed, unitType : {"Kg"}]

UsedBatchLists ==
    UNION {[1..n -> BatchEntries] : n \in 1..MaxBatches}

Consume ==
    /\ CanCall
    /\ \E manufacturerID \in Manufacturers, usedBatches \in UsedBatchLists,
          score \in ManufacturerScores :
          Install(useHerbInMedicine(Engine, "B1", manufacturerID, Place, usedBatches,
                                    2, "Pieces", [score |-> score]).st)
    /\ UNCHANGED uiVars

Next == Register \/ VerifyReceipt \/ Transfer \/ Consume

Spec == Init /\ [][Next]_vars

(***************************************************************************)
(* The page: the click handlers around the engine, the quality check with  *)
(* its delayed analysis, saveData after the operations, and the reload     *)
(* that builds the engine again from the saved item.  A handler or a       *)
(* callback runs to completion before the next one starts.                 *)
(***************************************************************************)
Handled(S, sv, q) == [st |-> S, saved |-> sv, quality |-> q]

\* add-herb-btn click
addHerbClick(S, sv, quality, herbID, name, location, quantity, unitType) ==
    IF quantity <= 0 \/ quality = Null
    THEN Handled(S, sv, quality)
    ELSE LET result == registerHerb(S, "COLLECTOR-001", herbID, name, location,
                                    quantity, unitType, quality[1])
         IN IF result.success
            THEN Handled(result.st, saveData(result.st), Null)
            ELSE Handled(result.st, sv, quality)

verifyReceiptClick_SaveOnSuccess(S, sv, herbID, measuredQuantity) ==
    LET result == verifyHerbReceipt(S, "SUPPLIER-001", herbID, measuredQuantity)
    IN IF result.success
       THEN Handled(result.st, saveData(result.st), Null)
       ELSE Handled(result.st, sv, Null)

\* verify-receipt-btn click: saveData follows the call whatever it returned
verifyReceiptClick(S, sv, herbID, measuredQuantity) ==
    LET result == verifyHerbReceipt(S, "SUPPLIER-001", herbID, measuredQuantity)
    IN IF result.kind = "TypeError"
       THEN Handled(result.st, sv, Null)
       ELSE Handled(result.st, saveData(result.st), Null)

\* transfer-herb-btn click
transferHerbClick(S, sv, quality, herbID, toID, weight, location, unitType) ==
    IF quality = Null
    THEN Handled(S, sv, quality)
    ELSE LET result == transferHerb(S, "SUPPLIER-001", toID, herbID, weight,
                                    location, unitType, quality[1])
         IN IF result.success
            THEN Handled(result.st, saveData(result.st), Null)
            ELSE Handled(result.st, sv, quality)

\* produce-medicine-btn click
produceMedicineClick(S, sv, quality, batchID, location, usedBatches, finalWeight, finalUnit) ==
    IF \/ \E i \in 1..Len(usedBatches) : usedBatches[i].unitsUsed <= 0
       \/ finalWeight <= 0
       \/ Len(usedBatches) = 0
       \/ quality = Null
    THEN Handled(S, sv, quality)
    ELSE LET result == useHerbInMedicine(S, batchID, "MANU-001", location,
                                         usedBatches, finalWeight, finalUnit,
                                         quality[1])
         IN IF result.success
            THEN Handled(result.st, saveData(result.st), Null)
            ELSE Handled(result.st, sv, quality)

\* the inputs of the page: a role, the score the analysis of its snapshot
\* gives, and what the forms hold
Roles == {"collector", "supplier", "manufacturer"}

ScoreOf(role) ==
    IF role = "collector" THEN 80 ELSE IF role = "supplier" THEN 75 ELSE 65

PageHerbs == 1..MaxPageHerbs
PageMeasured == {97, 98}
PageWeights == {40, 60}
PageReceivers == {"MANU-001"}
PageBatchLists ==
    UNION {[1..n -> [herbID : PageHerbs, unitsUsed : UnitsUsed, unitType : {"Kg"}]] :
             n \in 1..MaxPageBatches}

\* 'HERB-' + Date.now(): an id later than every id of the registry
NewHerbIDs(S) ==
    {h \in PageHerbs : \A g \in DOMAIN S.metadata \cap PageHerbs : g < h}

CanClick == Len(chain) < BaseLen + MaxPageOps

\* the engine a page load builds from an item
Loaded(item) ==
    /\ Install(constructor(item))
    /\ collectorQualityData' = Null
    /\ supplierQualityData' = Null
    /\ manufacturerQualityData' = Null
    /\ timers' = << >>

InitUI ==
    /\ saved \in {Null, WithoutReputation(saveData(SavedState))}
    /\ LET S == constructor(saved)
       IN /\ chain = S.chain
          /\ metadata = S.metadata
          /\ inventories = S.inventories
          /\ reputationScores = S.reputationScores
          /\ shared = S.shared
    /\ collectorQualityData = Null
    /\ supplierQualityData = Null
    /\ manufacturerQualityData = Null
    /\ timers = << >>

\* takeSnapshotAndCheck: the image is taken at the click, the analysis runs
\* in a callback one second later
CheckQualityClick ==
    /\ Len(timers) < MaxTimers
    /\ \E role \in Roles :
          timers' = Append(timers, [role |-> role, score |-> ScoreOf(role)])
    /\ UNCHANGED <<chain, metadata, inventories, reputationScores, shared, saved,
                   collectorQualityData, supplierQualityData,
                   manufacturerQualityData>>

\* the callbacks have the same delay, so they run in the order of the clicks
AnalysisDone ==
    /\ timers # << >>
    /\ LET qualityData == <<[score |-> Head(timers).score]>>
           role == Head(timers).role
       IN /\ collectorQualityData' =
                IF role = "collector" THEN qualityData ELSE collectorQualityData
          /\ supplierQualityData' =
                IF role = "supplier" THEN qualityData ELSE supplierQualityData
          /\ manufacturerQualityData' =
                IF role = "manufacturer" THEN qualityData
                ELSE manufacturerQualityData
    /\ timers' = Tail(timers)
    /\ UNCHANGED <<chain, metadata, inventories, reputationScores, shared, saved>>

AddHerbClick ==
    /\ CanClick
    /\ \E herbID \in NewHerbIDs(Engine), quantity \in ClaimedQuantities :
          LET r == addHerbClick(Engine, saved, collectorQualityData, herbID,
                                NameOf(herbID), Place, quantity, UnitOf(herbID))
          IN /\ Install(r.st)
             /\ saved' = r.saved
             /\ collectorQualityData' = r.quality
    /\ UNCHANGED <<supplierQualityData, manufacturerQualityData, timers>>

VerifyReceiptClick ==
    /\ CanClick
    /\ \E herbID \in PageHerbs, measuredQuantity \in PageMeasured :
          LET r == verifyReceiptClick(Engine, saved, herbID, measuredQuantity)
          IN /\ Install(r.st)
             /\ saved' = r.saved
    /\ UNCHANGED <<collectorQualityData, supplierQualityData,
                   manufacturerQualityData, timers>>

TransferHerbClick ==
    /\ CanClick
    /\ \E herbID \in PageHerbs, toID \in PageReceivers, weight \in PageWeights :
          LET r == transferHerbClick(Engine, saved, supplierQualityData, herbID,
                                     toID, weight, Place, UnitOf(herbID))
          IN /\ Install(r.st)
             /\ saved' = r.saved
             /\ supplierQualityData' = r.quality
    /\ UNCHANGED <<collectorQualityData, manufacturerQualityData, timers>>

ProduceMedicineClick ==
    /\ CanClick
    /\ \E usedBatches \in PageBatchLists :
          LET r == produceMedicineClick(Engine, saved, manufacturerQualityData,
                                        "B1", Place, usedBatches, 2, "Pieces")
          IN /\ Install(r.st)
             /\ saved' = r.saved
             /\ manufacturerQualityData' = r.quality
    /\ UNCHANGED <<collectorQualityData, supplierQualityData, timers>>

\* the page is loaded again: new Blockchain() reads the item
ReloadPage ==
    /\ Loaded(saved)
    /\ UNCHANGED saved

\* clearData: the item is removed and the page loaded again
ClearDataClick ==
    /\ saved' = Null
    /\ Loaded(Null)

NextUI ==
    \/ CheckQualityClick \/ AnalysisDone
    \/ AddHerbClick \/ VerifyReceiptClick \/ TransferHerbClick
    \/ ProduceMedicineClick
    \/ ReloadPage \/ ClearDataClick

SpecUI == InitUI /\ [][NextUI]_vars

(***************************************************************************)
(* Vocabulary of the properties.                                           *)
(***************************************************************************)
LastData(ch) == ch[Len(ch)].data

\* the step appended exactly one block and kept the earlier blocks in place
AppendedOne == Len(chain') = Len(chain) + 1

\* the quantity actor a holds of herb h (0 when there is no entry)
Held(inv, a, h) ==
    IF a \in DOMAIN inv /\ h \in DOMAIN inv[a] THEN inv[a][h].quantity ELSE 0

StatusOf(md, h) == IF h \in DOMAIN md THEN md[h].status ELSE "absent"

\* every transfer of herb h the properties probe in a state satisfies P
AllTransfers(h, P(_)) ==
    \A f \in ActorIDs : \A t \in Receivers : \A w \in Weights \cup {0} :
        \A u \in Units : \A q \in TransferScores :
            P(transferHerb(Engine, f, t, h, w, Place, u, [score |-> q]))

ProbeBatchLists ==
    UNION {[1..n -> [herbID : HerbIDs, unitsUsed : UnitsUsed \cup {-5},
                     unitType : {"Kg"}]] : n \in 1..2}

\* every consume that lists herb h and that the properties probe satisfies P
AllConsumes(h, P(_)) ==
    \A m \in ActorIDs : \A q \in ManufacturerScores : \A bs \in ProbeBatchLists :
        (\E i \in 1..Len(bs) : bs[i].herbID = h) =>
            P(useHerbInMedicine(Engine, "B1", m, Place, bs, 2, "Pieces",
                                [score |-> q]))

\* the blocks of the chain whose record is of one of the types ts and names h
RecordsOf(h, ts) ==
    {i \in 2..Len(chain) : chain[i].data.type \in ts /\ chain[i].data.herbID = h}

(***************************************************************************)
(* C1: in every reachable state every inventory quantity of every actor is *)
(* at least 0.                                                             *)
(***************************************************************************)
C1_NonNegative ==
    \A a \in DOMAIN inventories : \A h \in DOMAIN inventories[a] :
        inventories[a][h].quantity >= 0

(***************************************************************************)
(* C2: the status of an item changes only in a step that appends the       *)
(* outcome record of its verification, only from pending_verification, to  *)
(* verified when the measured quantity is within 2% of the claimed one and *)
(* to disputed when it is not; such a step always changes the status; no   *)
(* item leaves the registry.                                               *)
(***************************************************************************)
C2_StatusMachine ==
    [][\A h \in DOMAIN metadata :
          LET old == metadata[h].status
              new == StatusOf(metadata', h)
              rec == LastData(chain')
              claimed == metadata[h].history[1].quantity
              outcome == /\ AppendedOne
                         /\ rec.type \in {"verifyReceipt", "fraudAlert"}
                         /\ rec.herbID = h
          IN /\ new # "absent"
             /\ new # old =>
                  /\ old = "pending_verification"
                  /\ outcome
             /\ outcome =>
                  /\ old = "pending_verification"
                  /\ rec.type = "verifyReceipt" =>
                       /\ new = "verified"
                       /\ Abs(claimed - rec.verifiedQuantity) * 50 <= claimed
                  /\ rec.type = "fraudAlert" =>
                       /\ new = "disputed"
                       /\ Abs(claimed - rec.measuredQuantity) * 50 > claimed
    ]_vars

\* a verified item that has been transferred or consumed after verification
C2_Witness ==
    \E h \in HerbIDs :
        /\ StatusOf(metadata, h) = "verified"
        /\ Len(metadata[h].history) > 2

(***************************************************************************)
(* C3, as stated: once an item is disputed every transfer of it fails with *)
(* ItemNotTransferable and no consume that lists it succeeds.              *)
(***************************************************************************)
C3_Original ==
    \A h \in HerbIDs :
        StatusOf(metadata, h) = "disputed" =>
            /\ AllTransfers(h, LAMBDA r : r.kind = "ItemNotTransferable")
            /\ AllConsumes(h, LAMBDA r : ~r.success)

(***************************************************************************)
(* C3, amended: once an item is disputed every transfer of it fails with   *)
(* ItemNotFound (no inventory holds a disputed item, so the status check   *)
(* is not reached) and changes nothing, and no consume that lists it       *)
(* succeeds or changes anything.                                           *)
(***************************************************************************)
C3_DisputedIsTerminal ==
    \A h \in HerbIDs :
        StatusOf(metadata, h) = "disputed" =>
            /\ AllTransfers(h, LAMBDA r :
                  ~r.success /\ r.kind = "ItemNotFound" /\ r.st = Engine)
            /\ AllConsumes(h, LAMBDA r : ~r.success /\ r.st = Engine)

\* an item disputed by a verification, while another item is verified and
\* held by the supplier, whose transfers succeed
C3_Witness ==
    \E h \in HerbIDs, g \in HerbIDs :
        /\ StatusOf(metadata, h) = "disputed"
        /\ RecordsOf(h, {"fraudAlert"}) # {}
        /\ Held(inventories, "SUPPLIER-001", g) > 0
        /\ ~AllTransfers(g, LAMBDA r : ~r.success)

(***************************************************************************)
(* C4: verifyReceipt on a pending item disputes it exactly when the        *)
(* measured quantity differs from the claimed one by more than 2% of the   *)
(* claimed one, above as below: for 100 claimed, 98 and 102 verify, 97 and *)
(* 103 dispute.                                                            *)
(***************************************************************************)
C4_ToleranceBoundary ==
    \A h \in DOMAIN metadata :
        metadata[h].status = "pending_verification" =>
            \A v \in Verifiers : \A m \in ProbeQuantities :
                LET claimed == metadata[h].history[1].quantity
                    after == verifyHerbReceipt(Engine, v, h, m).st.metadata[h].status
                IN /\ after \in {"verified", "disputed"}
                   /\ after = "disputed" <=> 50 * Abs(claimed - m) > claimed
                   /\ (claimed = 100 /\ m \in {98, 102}) => after = "verified"
                   /\ (claimed = 100 /\ m \in {97, 103}) => after = "disputed"

\* an item claimed at 100 and verified with the boundary measurement 98
C4_Witness ==
    \E h \in HerbIDs :
        /\ StatusOf(metadata, h) = "verified"
        /\ metadata[h].history[1].quantity = 100
        /\ \E i \in RecordsOf(h, {"verifyReceipt"}) :
              chain[i].data.verifiedQuantity = 98

(***************************************************************************)
(* C5: a step that appends a VerifyReceipt record for an item leaves the   *)
(* verifier's inventory entry for the item with the measured quantity and  *)
(* the unit type of the registration, and appends that one record to the   *)
(* item's history too.                                                     *)
(***************************************************************************)
C5_Original ==
    [][(AppendedOne /\ LastData(chain').type = "verifyReceipt") =>
          LET rec == LastData(chain')
              h == rec.herbID
              v == rec.supplierID
          IN /\ v \in DOMAIN inventories'
             /\ h \in DOMAIN inventories'[v]
             /\ inventories'[v][h].quantity = rec.verifiedQuantity
             /\ inventories'[v][h].unitType = metadata[h].history[1].unitType
             /\ Len(metadata'[h].history) = Len(metadata[h].history) + 1
             /\ metadata'[h].history[Len(metadata'[h].history)] = rec
    ]_vars

(***************************************************************************)
(* C6: a step that appends a FraudAlert record for an item leaves the item *)
(* disputed, lowers the registrant's reputation by exactly 10, records the *)
(* claimed and the measured quantity, and changes no inventory.            *)
(***************************************************************************)
C6_Original ==
    [][(AppendedOne /\ LastData(chain').type = "fraudAlert") =>
          LET rec == LastData(chain')
              h == rec.herbID
              registrant == metadata[h].history[1].collectorID
          IN /\ metadata'[h].status = "disputed"
             /\ registrant \in DOMAIN reputationScores
             /\ reputationScores'[registrant] = reputationScores[registrant] - 10
             /\ rec.claimedQuantity = metadata[h].history[1].quantity
             /\ inventories' = inventories
    ]_vars

(***************************************************************************)
(* C7: a step that appends a VerifyReceipt record for an item raises the   *)
(* registrant's reputation by exactly 1 and the verifier's by exactly 1.   *)
(***************************************************************************)
C7_Original ==
    [][(AppendedOne /\ LastData(chain').type = "verifyReceipt") =>
          LET rec == LastData(chain')
              registrant == metadata[rec.herbID].history[1].collectorID
              verifier == rec.supplierID
          IN /\ registrant \in DOMAIN reputationScores =>
                  reputationScores'[registrant] = reputationScores[registrant] + 1
             /\ (verifier \in DOMAIN reputationScores /\ verifier # registrant) =>
                  reputationScores'[verifier] = reputationScores[verifier] + 1
    ]_vars

(***************************************************************************)
(* C8: verifyReceipt on an item-id that is not registered, or whose status *)
(* is verified or disputed, fails with NotAwaitingVerification and changes *)
(* nothing; the chain holds at most one verification outcome record per    *)
(* item.                                                                   *)
(***************************************************************************)
C8_NotAwaitingVerification ==
    /\ \A h \in ArgHerbs :
          StatusOf(metadata, h) # "pending_verification" =>
              \A v \in Verifiers : \A m \in MeasuredQuantities \cup {100} :
                  LET r == verifyHerbReceipt(Engine, v, h, m)
                  IN ~r.success /\ r.kind = "NotAwaitingVerification" /\ r.st = Engine
    /\ \A h \in ArgHerbs \cap DOMAIN metadata :
          Cardinality(RecordsOf(h, {"verifyReceipt", "fraudAlert"})) <= 1

\* a verified item in the verifier's inventory
C8_Witness ==
    \E h \in HerbIDs :
        /\ StatusOf(metadata, h) = "verified"
        /\ Held(inventories, "SUPPLIER-001", h) > 0
        /\ RecordsOf(h, {"verifyReceipt"}) # {}

(***************************************************************************)
(* C9: register with an item-id that is in the registry, whatever the      *)
(* item's status, fails with DuplicateItem and changes nothing.            *)
(***************************************************************************)
C9_DuplicateItem ==
    \A h \in ArgHerbs \cap DOMAIN metadata :
        \A c \in Collectors \cup {"OTHER-001"} : \A q \in ClaimedQuantities \cup {50} :
          \A u \in Units :
            LET r == registerHerb(Engine, c, h, NameOf(h), Place, q, u, RegisterQuality)
            IN ~r.success /\ r.kind = "DuplicateItem" /\ r.st = Engine

\* the registry holds a pending, a verified and a disputed item
C9_Witness ==
    \E p \in ArgHerbs, v \in ArgHerbs, d \in ArgHerbs :
        /\ StatusOf(metadata, p) = "pending_verification"
        /\ StatusOf(metadata, v) = "verified"
        /\ StatusOf(metadata, d) = "disputed"

(***************************************************************************)
(* C10: a step that registers an item creates its master record with       *)
(* status pending_verification and the RegisterHerb record as its history, *)
(* appends exactly that one record to the chain and changes no inventory;  *)
(* in every state an item that is not verified is in no inventory.         *)
(***************************************************************************)
C10_RegisterEffect ==
    /\ [](\A a \in DOMAIN inventories : \A h \in DOMAIN inventories[a] :
             StatusOf(metadata, h) = "verified")
    /\ [][\A h \in (DOMAIN metadata') \ (DOMAIN metadata) :
             LET rec == LastData(chain')
             IN /\ AppendedOne
                /\ SubSeq(chain', 1, Len(chain)) = chain
                /\ rec.type = "registerHerb"
                /\ rec.herbID = h
                /\ rec.status = "pending_verification"
                /\ metadata'[h].status = "pending_verification"
                /\ metadata'[h].history = <<rec>>
                /\ inventories' = inventories
                /\ \A g \in DOMAIN metadata : metadata'[g] = metadata[g]
       ]_vars

\* an item has just been registered while another one is held in stock
C10_Witness ==
    \E h \in HerbIDs, g \in HerbIDs :
        /\ LastData(chain).type = "registerHerb"
        /\ LastData(chain).herbID = h
        /\ StatusOf(metadata, h) = "pending_verification"
        /\ Held(inventories, "SUPPLIER-001", g) > 0

(***************************************************************************)
(* What a step that appends a TransferHerb record leaves alone, and what   *)
(* it appends: every inventory entry but the sender's and the receiver's   *)
(* entry of the item, every status, every reputation score, the earlier    *)
(* blocks; the record is the one new block and the one new history entry;  *)
(* a receiver's entry that was absent has the item's name and the sender's *)
(* unit type.                                                              *)
(***************************************************************************)
TransferFrame ==
    LET rec == LastData(chain')
        f == rec.fromID
        t == rec.toID
        h == rec.herbID
    IN /\ f \in DOMAIN inventories /\ h \in DOMAIN inventories[f]
       /\ t \in DOMAIN inventories' /\ h \in DOMAIN inventories'[t]
       /\ f \in DOMAIN inventories' /\ h \in DOMAIN inventories'[f]
       /\ inventories'[t][h].name = metadata[h].name
       /\ inventories'[t][h].unitType = inventories[f][h].unitType
       /\ \A a \in DOMAIN inventories : \A g \in DOMAIN inventories[a] :
             /\ a \in DOMAIN inventories' /\ g \in DOMAIN inventories'[a]
             /\ (g # h \/ a \notin {f, t}) => inventories'[a][g] = inventories[a][g]
       /\ \A a \in DOMAIN inventories' : \A g \in DOMAIN inventories'[a] :
             (g # h \/ a # t) => (a \in DOMAIN inventories /\ g \in DOMAIN inventories[a])
       /\ DOMAIN metadata' = DOMAIN metadata
       /\ \A g \in DOMAIN metadata :
             /\ metadata'[g].status = metadata[g].status
             /\ g # h => metadata'[g] = metadata[g]
       /\ reputationScores' = reputationScores
       /\ SubSeq(chain', 1, Len(chain)) = chain
       /\ metadata'[h].history = Append(metadata[h].history, rec)

(***************************************************************************)
(* C11, as stated: a step that appends a TransferHerb record of weight w   *)
(* lowers the sender's quantity of the item by exactly w and raises the    *)
(* receiver's by exactly w, and has the frame above.                       *)
(***************************************************************************)
C11_Original ==
    [][(AppendedOne /\ LastData(chain').type = "transferHerb") =>
          LET rec == LastData(chain')
          IN /\ Held(inventories', rec.fromID, rec.herbID) =
                   Held(inventories, rec.fromID, rec.herbID) - rec.weight
             /\ Held(inventories', rec.toID, rec.herbID) =
                   Held(inventories, rec.toID, rec.herbID) + rec.weight
             /\ TransferFrame
    ]_vars

(***************************************************************************)
(* C11, amended: a step that appends a TransferHerb record of weight w     *)
(* from a sender to another actor lowers the sender's quantity of the item *)
(* by exactly w and raises the receiver's by exactly w; when the sender is *)
(* the receiver the quantity is debited and credited back, so it is        *)
(* unchanged; in both cases the step has the frame above.                  *)
(***************************************************************************)
C11_TransferEffect ==
    [][(AppendedOne /\ LastData(chain').type = "transferHerb") =>
          LET rec == LastData(chain')
              f == rec.fromID
              t == rec.toID
              h == rec.herbID
          IN /\ f # t =>
                  /\ Held(inventories', f, h) = Held(inventories, f, h) - rec.weight
                  /\ Held(inventories', t, h) = Held(inventories, t, h) + rec.weight
             /\ f = t => Held(inventories', f, h) = Held(inventories, f, h)
             /\ TransferFrame
    ]_vars

\* the last step transferred stock from the supplier to an actor that had
\* no inventory
C11_Witness ==
    LET rec == LastData(chain)
    IN /\ rec.type = "transferHerb"
       /\ rec.fromID = "SUPPLIER-001"
       /\ rec.toID = "OTHER-001"
       /\ rec.weight > 0
       /\ Held(inventories, "OTHER-001", rec.herbID) = rec.weight

(***************************************************************************)
(* The failure the precondition list of transfer names for a call: the     *)
(* first of (1) the sender's inventory holds the item with a quantity      *)
(* above 0, (2) the item is verified, (3) the unit type is the entry's,    *)
(* (4) the weight is at most the quantity, that does not hold; "none" when *)
(* all four hold.                                                          *)
(***************************************************************************)
FirstViolated(f, h, w, u) ==
    IF Held(inventories, f, h) <= 0 THEN "ItemNotFound"
    ELSE IF StatusOf(metadata, h) # "verified" THEN "ItemNotTransferable"
    ELSE IF inventories[f][h].unitType # u THEN "UnitMismatch"
    ELSE IF w > inventories[f][h].quantity THEN "InsufficientQuantity"
    ELSE "none"

(***************************************************************************)
(* C12, as stated: a transfer that violates one or more of the four        *)
(* preconditions fails with the failure of the first one violated, in the  *)
(* order ItemNotFound, ItemNotTransferable, UnitMismatch,                  *)
(* InsufficientQuantity, and every failed transfer changes nothing.        *)
(***************************************************************************)
C12_Original ==
    \A h \in ArgHerbs : \A f \in ActorIDs : \A t \in Receivers :
        \A w \in Weights \cup {0} : \A u \in Units :
            LET r == transferHerb(Engine, f, t, h, w, Place, u, [score |-> 75])
            IN /\ FirstViolated(f, h, w, u) # "none" =>
                    ~r.success /\ r.kind = FirstViolated(f, h, w, u)
               /\ ~r.success => r.st = Engine

(***************************************************************************)
(* C13, as stated: a transfer invoked with a quality snapshot whose score  *)
(* is below 70 fails with QualityBelowThreshold and changes nothing, and   *)
(* no TransferHerb record of the chain carries a score below 70.           *)
(***************************************************************************)
C13_Original ==
    /\ \A h \in ArgHerbs : \A f \in Senders : \A t \in Receivers :
          \A w \in Weights : \A u \in Units : \A q \in {q \in TransferScores : q < 70} :
              LET r == transferHerb(Engine, f, t, h, w, Place, u, [score |-> q])
              IN ~r.success /\ r.kind = "QualityBelowThreshold" /\ r.st = Engine
    /\ \A i \in 2..Len(chain) :
          chain[i].data.type = "transferHerb" => chain[i].data.supplierQuality.score >= 70

(***************************************************************************)
(* C14: consumeIntoProduct with a quality score below 60 fails with        *)
(* QualityBelowThreshold whatever the manufacturer and the used batches,   *)
(* and changes nothing; a score of 60 passes the gate; every UseHerb       *)
(* record of the chain carries a score of at least 60.                     *)
(***************************************************************************)
C14_QualityGate ==
    /\ \A m \in {"MANU-001", "OTHER-001"} : \A h \in HerbIDs :
        \A bs \in {<<[herbID |-> h, unitsUsed |-> 30, unitType |-> "Kg"]>>,
                   <<[herbID |-> h, unitsUsed |-> 30, unitType |-> "Kg"],
                     [herbID |-> h, unitsUsed |-> 30, unitType |-> "Gram"]>>} :
          /\ \A q \in {55, 59} :
                LET r == useHerbInMedicine(Engine, "B1", m, Place, bs, 2, "Pieces",
                                           [score |-> q])
                IN ~r.success /\ r.kind = "QualityBelowThreshold" /\ r.st = Engine
          /\ useHerbInMedicine(Engine, "B1", m, Place, bs, 2, "Pieces",
                               [score |-> 60]).kind # "QualityBelowThreshold"
    /\ \A i \in 2..Len(chain) :
          chain[i].data.type = "useHerb" =>
              chain[i].data.manufacturerQuality.score >= 60

\* a product has been made, and the stock left still allows a consume that
\* succeeds at score 60: the same call at 59 is the one the gate rejects
C14_Witness ==
    /\ \E i \in 2..Len(chain) : chain[i].data.type = "useHerb"
    /\ \E bs \in ProbeBatchLists :
          useHerbInMedicine(Engine, "B1", "MANU-001", Place, bs, 2, "Pieces",
                            [score |-> 60]).success

(***************************************************************************)
(* C15, as stated: consumeIntoProduct lowers the manufacturer's reputation *)
(* by 5 when the quality gate rejects it, raises it by 2 when it succeeds, *)
(* and leaves it unchanged on any other failure.                           *)
(***************************************************************************)
C15_Original ==
    \A m \in DOMAIN reputationScores : \A bs \in ProbeBatchLists :
        \A q \in ManufacturerScores :
            LET r == useHerbInMedicine(Engine, "B1", m, Place, bs, 2, "Pieces",
                                       [score |-> q])
                after == r.st.reputationScores[m]
            IN after = reputationScores[m] +
                         (IF r.kind = "QualityBelowThreshold" THEN -5
                          ELSE IF r.success THEN 2 ELSE 0)

(***************************************************************************)
(* C16, as stated: when one or more entries of usedBatches are invalid     *)
(* (item absent from the manufacturer's inventory, quantity smaller than   *)
(* unitsUsed, or unit type mismatch), consumeIntoProduct returns the one   *)
(* failure InsufficientOrMismatchedBatches, which names exactly the        *)
(* item-ids of the invalid entries, all of them, and it changes nothing.   *)
(***************************************************************************)
C16_Original ==
    \A m \in DOMAIN inventories : \A bs \in ProbeBatchLists :
        LET offending(b) ==
                \/ b.herbID \notin DOMAIN inventories[m]
                \/ inventories[m][b.herbID].quantity < b.unitsUsed
                \/ inventories[m][b.herbID].unitType # b.unitType
            named == InvalidHerbs(inventories[m], bs)
            r == useHerbInMedicine(Engine, "B1", m, Place, bs, 2, "Pieces",
                                   [score |-> 65])
        IN (\E i \in 1..Len(bs) : offending(bs[i])) =>
              /\ ~r.success
              /\ r.kind = "InsufficientOrMismatchedBatches"
              /\ r.st = Engine
              /\ named = SelectSeq(bs, offending)

RECURSIVE TotalUnits(_, _)
\* the sum of unitsUsed over the entries of bs that name item h
TotalUnits(bs, h) ==
    IF bs = <<>> THEN 0
    ELSE (IF Head(bs).herbID = h THEN Head(bs).unitsUsed ELSE 0)
         + TotalUnits(Tail(bs), h)

\* the number of entries of bs that name item h
EntriesOf(bs, h) == Cardinality({i \in 1..Len(bs) : bs[i].herbID = h})

(***************************************************************************)
(* C17: a step that appends a UseHerb record debits, in the manufacturer's *)
(* inventory, the quantity of each item the used batches name by the units *)
(* used of the entries naming it, leaves every other inventory entry       *)
(* unchanged, appends that one record to the chain (the record holds the   *)
(* used batches, and every entry of them names an item of the              *)
(* manufacturer's inventory), and pushes the record onto the history of    *)
(* every item named, and of no other item.                                 *)
(***************************************************************************)
C17_ConsumeEffect ==
    [][(AppendedOne /\ LastData(chain').type = "useHerb") =>
          LET rec == LastData(chain')
              m == rec.manufacturerID
              bs == rec.usedBatches
          IN /\ SubSeq(chain', 1, Len(chain)) = chain
             /\ Len(bs) > 0
             /\ m \in DOMAIN inventories
             /\ \A i \in 1..Len(bs) : bs[i].herbID \in DOMAIN inventories[m]
             /\ DOMAIN inventories' = DOMAIN inventories
             /\ \A a \in DOMAIN inventories :
                   /\ DOMAIN inventories'[a] = DOMAIN inventories[a]
                   /\ \A g \in DOMAIN inventories[a] :
                         inventories'[a][g] =
                            [inventories[a][g] EXCEPT !.quantity =
                                @ - (IF a = m THEN TotalUnits(bs, g) ELSE 0)]
             /\ DOMAIN metadata' = DOMAIN metadata
             /\ \A g \in DOMAIN metadata :
                   LET old == metadata[g].history
                       new == metadata'[g].history
                   IN /\ metadata'[g] = [metadata[g] EXCEPT !.history = new]
                      /\ Len(new) = Len(old) + EntriesOf(bs, g)
                      /\ SubSeq(new, 1, Len(old)) = old
                      /\ \A j \in (Len(old) + 1)..Len(new) : new[j] = rec
    ]_vars

\* the last step consumed 30 units of an item out of the manufacturer's
\* stock and left 30
C17_Witness ==
    LET rec == LastData(chain)
    IN /\ rec.type = "useHerb"
       /\ rec.manufacturerID = "MANU-001"
       /\ Len(rec.usedBatches) = 1
       /\ rec.usedBatches[1].unitsUsed = 30
       /\ Held(inventories, "MANU-001", rec.usedBatches[1].herbID) = 30

(***************************************************************************)
(* C18, as stated: every call of register, verifyReceipt, transfer and     *)
(* consumeIntoProduct, for any arguments (unknown actor-id, unknown        *)
(* item-id, item-id absent from the named inventory), returns a success or *)
(* a failure result and never throws.                                      *)
(***************************************************************************)
C18_Original ==
    /\ \A h \in ArgHerbs : \A c \in ActorIDs :
          registerHerb(Engine, c, h, NameOf(h), Place, 100, UnitOf(h),
                       RegisterQuality).kind # "TypeError"
    /\ \A h \in ArgHerbs : \A v \in ActorIDs : \A m \in MeasuredQuantities :
          verifyHerbReceipt(Engine, v, h, m).kind # "TypeError"
    /\ \A h \in ArgHerbs : AllTransfers(h, LAMBDA r : r.kind # "TypeError")
    /\ \A h \in HerbIDs : AllConsumes(h, LAMBDA r : r.kind # "TypeError")

(***************************************************************************)
(* C19, as stated: every call applies all of its effects or none: a call   *)
(* that does not end in success or in FraudDetected leaves the state as it *)
(* was, and no reachable state has a verified item with a VerifyReceipt    *)
(* record but no entry in the inventory of the verifier the record names.  *)
(***************************************************************************)
C19_Original ==
    /\ \A h \in HerbIDs : \A v \in ActorIDs : \A m \in MeasuredQuantities :
          LET r == verifyHerbReceipt(Engine, v, h, m)
          IN (~r.success /\ r.kind # "FraudDetected") => r.st = Engine
    /\ \A h \in HerbIDs : AllTransfers(h, LAMBDA r : ~r.success => r.st = Engine)
    /\ \A h \in HerbIDs : AllConsumes(h, LAMBDA r : ~r.success => r.st = Engine)
    /\ \A h \in DOMAIN metadata : \A i \in RecordsOf(h, {"verifyReceipt"}) :
          metadata[h].status = "verified" =>
              /\ chain[i].data.supplierID \in DOMAIN inventories
              /\ h \in DOMAIN inventories[chain[i].data.supplierID]

(***************************************************************************)
(* C20: in every reachable state the previousHash of every block after the *)
(* first is the hash of the block before it, and the first block is the    *)
(* fixed genesis block, with previousHash "0".                             *)
(***************************************************************************)
C20_ChainLinked ==
    /\ chain[1].previousHash = <<"0">>
    /\ chain[1].timestamp = "2025-01-01"
    /\ chain[1].hash = calculateHash(<<"0">>, "2025-01-01", chain[1].data)
    /\ chain[1].data.type = "genesis"
    /\ \A i \in 2..Len(chain) : chain[i].previousHash = chain[i - 1].hash

\* a chain of a registration, its verification (which rewrote the status in
\* the registration block) and a transfer
C20_Witness ==
    /\ Len(chain) >= 4
    /\ chain[2].data.type = "registerHerb"
    /\ chain[2].data.status = "verified"
    /\ LastData(chain).type = "transferHerb"

(***************************************************************************)
(* C21: in every reachable state, for every block after the genesis block, *)
(* calculateHash of the block's stored previousHash, its timestamp and its *)
(* record as currently stored is the block's stored hash, also for a       *)
(* RegisterHerb block whose record has had its status rewritten by         *)
(* verifyReceipt.                                                          *)
(***************************************************************************)
C21_HashReproducible ==
    \A i \in 2..Len(chain) :
        calculateHash(chain[i].previousHash, chain[i].timestamp, chain[i].data)
            = chain[i].hash

\* a RegisterHerb block whose record was appended as pending and has been
\* rewritten to disputed, and one rewritten to verified
C21_Witness ==
    \E i \in 2..Len(chain), j \in 2..Len(chain) :
        /\ chain[i].data.type = "registerHerb"
        /\ chain[i].data.status = "disputed"
        /\ shared[chain[i].data.herbID] = i
        /\ chain[j].data.type = "registerHerb"
        /\ chain[j].data.status = "verified"

(***************************************************************************)
(* C28, as stated: whatever score r the registrant of a pending item has,  *)
(* 0 and negative values included, a verifyReceipt that ends in            *)
(* FraudDetected leaves the registrant's score at r - 10 and one that ends *)
(* in verified leaves it at r + 1.                                         *)
(***************************************************************************)
C28_Original ==
    \A h \in DOMAIN metadata :
        metadata[h].status = "pending_verification" =>
            \A m \in MeasuredQuantities :
                LET registrant == metadata[h].history[1].collectorID
                    r == reputationScores[registrant]
                    res == verifyHerbReceipt(Engine, "SUPPLIER-001", h, m)
                    after == res.st.reputationScores[registrant]
                IN /\ res.kind = "FraudDetected" => after = r - 10
                   /\ res.kind = "Verified" => after = r + 1

(***************************************************************************)
(* C29, as stated: a transfer from an inventory entry whose quantity is 0  *)
(* fails with ItemNotFound for every weight, weight 0 included, and        *)
(* changes nothing.                                                        *)
(***************************************************************************)
C29_Original ==
    \A f \in DOMAIN inventories : \A h \in DOMAIN inventories[f] :
        inventories[f][h].quantity = 0 =>
            \A t \in Receivers : \A w \in Weights \cup {0} : \A u \in Units :
                LET r == transferHerb(Engine, f, t, h, w, Place, u, [score |-> 75])
                IN ~r.success /\ r.kind = "ItemNotFound" /\ r.st = Engine

(***************************************************************************)
(* C30: a step changes a reputation score only if it appends the outcome   *)
(* record of a verification or a UseHerb record; a step that appends a     *)
(* RegisterHerb or a TransferHerb record, and every failed register and    *)
(* transfer, leaves every score unchanged; a verification changes no score *)
(* but the registrant's and the verifier's.                                *)
(***************************************************************************)
C30_ReputationFrame ==
    /\ [][LET rec == LastData(chain')
              registrant == metadata[rec.herbID].history[1].collectorID
              touched == IF rec.type = "verifyReceipt"
                         THEN {registrant, rec.supplierID}
                         ELSE IF rec.type = "fraudAlert" THEN {registrant}
                         ELSE {}
          IN /\ reputationScores' # reputationScores =>
                  /\ AppendedOne
                  /\ rec.type \in {"verifyReceipt", "fraudAlert", "useHerb"}
                  /\ rec.type \in {"verifyReceipt", "fraudAlert"} =>
                        \A a \in (DOMAIN reputationScores \cup DOMAIN reputationScores')
                                  \ touched :
                            /\ a \in DOMAIN reputationScores
                            /\ a \in DOMAIN reputationScores'
                            /\ reputationScores'[a] = reputationScores[a]
             /\ (AppendedOne /\ rec.type \in {"registerHerb", "transferHerb"}) =>
                  reputationScores' = reputationScores
         ]_vars
    /\ [](\A h \in ArgHerbs :
            /\ \A c \in ActorIDs :
                  LET r == registerHerb(Engine, c, h, NameOf(h), Place, 100,
                                        UnitOf(h), RegisterQuality)
                  IN r.st.reputationScores = reputationScores
            /\ \A f \in Senders : \A t \in Receivers : \A w \in Weights :
                  LET r == transferHerb(Engine, f, t, h, w, Place, UnitOf(h),
                                        [score |-> 75])
                  IN r.st.reputationScores = reputationScores)

\* the registrant's score has been changed by a verification, and a
\* transfer has been made since
C30_Witness ==
    /\ reputationScores["COLLECTOR-001"] \notin {0, InitialScore}
    /\ LastData(chain).type = "transferHerb"
    /\ LastData(chain).weight > 0

(***************************************************************************)
(* C22, as stated: the first scan of a minted unit id records it, so it    *)
(* changes the state, and answers firstSeen = true; the second scan of the *)
(* same unit id answers otherwise (firstSeen = false) and changes no       *)
(* state.                                                                  *)
(***************************************************************************)
C22_Original ==
    \A i \in 2..Len(chain) :
        chain[i].data.type = "useHerb" =>
            \A u \in MintedUnits(chain[i].data.batchID, chain[i].data.finalWeight) :
                LET qrData == [type |-> "medicine", batchID |-> u[1], unitID |-> u]
                    first == processQrData(Engine, qrData)
                    second == processQrData(first.st, qrData)
                IN /\ first.st # Engine
                   /\ second.content # first.content
                   /\ second.st = first.st

(***************************************************************************)
(* C23, as stated: after every successful consumeIntoProduct the unit ids  *)
(* minted from its batch id are distinct from every unit id minted before, *)
(* and the UseHerb record found by that batch id is the record of that     *)
(* very call.                                                              *)
(***************************************************************************)
C23_Original ==
    \A b \in {"B1", "B2"} : \A h \in HerbIDs :
        LET bs == <<[herbID |-> h, unitsUsed |-> 30, unitType |-> "Kg"]>>
            r == useHerbInMedicine(Engine, b, "MANU-001", Place, bs, 2, "Pieces",
                                   [score |-> 65])
            earlier == UNION {MintedUnits(chain[i].data.batchID,
                                          chain[i].data.finalWeight) :
                                i \in {j \in 2..Len(chain) :
                                          chain[j].data.type = "useHerb"}}
        IN r.success =>
             /\ MintedUnits(b, 2) \cap earlier = {}
             /\ useBlock(r.st.chain, b) = Len(r.st.chain)
             /\ \A u \in MintedUnits(b, 2) :
                   processQrData(r.st, [type |-> "medicine", batchID |-> b,
                                        unitID |-> u]).content[5][1][1] = bs[1]

(***************************************************************************)
(* C24: in every state of the page the saved item, read back by a page     *)
(* load, gives the chain, the registry, the inventories and the reputation *)
(* scores the engine has in memory: every operation that changed one of    *)
(* them (a successful register, transfer or consume, a verification ending *)
(* in verified or in FraudDetected) was followed by saveData.  Which       *)
(* history entry is the same object as a chain block is not part of the    *)
(* item.                                                                   *)
(***************************************************************************)
C24_SnapshotInSync ==
    LET L == constructor(saved)
    IN /\ L.chain = chain
       /\ L.metadata = metadata
       /\ L.inventories = inventories
       /\ L.reputationScores = reputationScores

\* a product has been made after the page was loaded again between the
\* operations, and an item is saved
C24_Witness ==
    /\ LastData(chain).type = "useHerb"
    /\ \E h \in PageHerbs : h \in DOMAIN shared /\ shared[h] = 0
    /\ saved # Null

(***************************************************************************)
(* C25: an item without reputationScores loads with COLLECTOR-001,         *)
(* SUPPLIER-001 and MANU-001 at 100; an item with reputationScores loads   *)
(* with exactly those scores (and the saved chain, registry and            *)
(* inventories); without an item the engine starts with the genesis block  *)
(* only, an empty registry, empty inventories and the three actors at 100. *)
(***************************************************************************)
C25_LoadDefaults ==
    LET known == {"COLLECTOR-001", "SUPPLIER-001", "MANU-001"}
        old == constructor(WithoutReputation(saveData(Engine)))
        full == constructor(saveData(Engine))
        none == constructor(Null)
    IN /\ old.reputationScores = [a \in known |-> 100]
       /\ old.chain = chain /\ old.metadata = metadata
       /\ old.inventories = inventories
       /\ full.reputationScores = reputationScores
       /\ full.chain = chain /\ full.metadata = metadata
       /\ full.inventories = inventories
       /\ Len(none.chain) = 1
       /\ none.chain[1].data.type = "genesis"
       /\ none.chain[1].previousHash = <<"0">>
       /\ DOMAIN none.metadata = {}
       /\ \A a \in DOMAIN none.inventories : DOMAIN none.inventories[a] = {}
       /\ none.reputationScores = [a \in known |-> 100]

\* the page started from an item without reputationScores (the registrant
\* of ten disputed herbs stood at 100), a verification raised the score,
\* and the page was loaded again from the item saved after it
C25_Witness ==
    /\ SavedBase + 1 \in DOMAIN metadata
    /\ reputationScores["COLLECTOR-001"] = InitialScore + Reward
    /\ \E h \in PageHerbs : h \in DOMAIN shared /\ shared[h] = 0

(***************************************************************************)
(* C26, as stated: an item whose chain does not start with the genesis     *)
(* block is not loaded into an engine that operates on it: no registration *)
(* succeeds on what the load built from it.                                *)
(***************************************************************************)
C26_Original ==
    Len(chain) >= 2 =>
        LET item == <<[chain |-> Tail(chain), metadata |-> metadata,
                       inventories |-> inventories,
                       reputationScores |-> reputationScores]>>
            S == constructor(item)
        IN \A h \in PageHerbs :
              ~registerHerb(S, "COLLECTOR-001", h, NameOf(h), Place, 100,
                            UnitOf(h), RegisterQuality).success

(***************************************************************************)
(* C27: under every interleaving of clicks and analysis callbacks, a       *)
(* transfer that succeeds moves at most what the sender held when it       *)
(* started and leaves the sender that much less, so transfers that         *)
(* together exceed the quantity never all succeed; a quality-check click   *)
(* and an analysis callback change no store of the engine.                 *)
(***************************************************************************)
C27_AtomicCheckThenAct ==
    [][/\ (AppendedOne /\ LastData(chain').type = "transferHerb") =>
            LET d == LastData(chain')
            IN /\ d.weight <= Held(inventories, d.fromID, d.herbID)
               /\ Held(inventories', d.fromID, d.herbID) =
                      Held(inventories, d.fromID, d.herbID) - d.weight
               /\ Held(inventories', d.fromID, d.herbID) >= 0
       /\ (\/ Len(timers') > Len(timers)
           \/ /\ timers # << >>
              /\ timers' = Tail(timers)
              /\ <<collectorQualityData', supplierQualityData',
                    manufacturerQualityData'>> # <<Null, Null, Null>>) =>
            UNCHANGED <<chain, metadata, inventories, reputationScores, shared,
                        saved>>
      ]_vars

\* a transfer of 60 has succeeded, the supplier holds a new quality result
\* and an analysis is pending, and a second transfer of 60 of the same herb
\* is refused for lack of stock
C27_Witness ==
    /\ LastData(chain).type = "transferHerb"
    /\ LastData(chain).weight = 60
    /\ supplierQualityData # Null
    /\ timers # << >>
    /\ transferHerb(Engine, "SUPPLIER-001", "MANU-001", LastData(chain).herbID,
                    60, Place, LastData(chain).unitType,
                    [score |-> 75]).kind = "InsufficientQuantity"

(***************************************************************************)
(* C31: in every reachable state every inventory entry of an item has the  *)
(* unit type the item was registered with; every transfer and every        *)
(* consume that succeeds names that unit type, and a call with another     *)
(* unit type does not succeed.                                             *)
(***************************************************************************)
RegisteredUnit(md, h) == md[h].history[1].unitType

C31_UnitConsistent ==
    /\ [](/\ \A a \in DOMAIN inventories : \A h \in DOMAIN inventories[a] :
               /\ h \in DOMAIN metadata
               /\ inventories[a][h].unitType = RegisteredUnit(metadata, h)
          /\ \A h \in HerbIDs : \A u \in Units :
               /\ \A f \in Senders : \A w \in {0, 40} :
                     transferHerb(Engine, f, "OTHER-001", h, w, Place, u,
                                  [score |-> 75]).success
                        => u = RegisteredUnit(metadata, h)
               /\ useHerbInMedicine(Engine, "B1", "MANU-001", Place,
                                    <<[herbID |-> h, unitsUsed |-> 30,
                                       unitType |-> u]>>,
                                    2, "Pieces", [score |-> 65]).success
                        => u = RegisteredUnit(metadata, h))
    /\ [][AppendedOne =>
            LET d == LastData(chain')
            IN /\ d.type = "transferHerb" =>
                     d.unitType = RegisteredUnit(metadata, d.herbID)
               /\ d.type = "useHerb" =>
                     \A i \in 1..Len(d.usedBatches) :
                         d.usedBatches[i].unitType =
                             RegisteredUnit(metadata, d.usedBatches[i].herbID)
         ]_vars

\* a herb registered in Gram has been verified and passed on: the supplier
\* and the receiver both hold an entry of it
C31_Witness ==
    /\ LastData(chain).type = "transferHerb"
    /\ LastData(chain).unitType = "Gram"
    /\ LastData(chain).weight > 0
    /\ \E h \in HerbIDs :
          /\ LastData(chain).herbID = h
          /\ h \in DOMAIN inventories["SUPPLIER-001"]
          /\ h \in DOMAIN inventories[LastData(chain).toID]

(***************************************************************************)
(* C32, as stated: an item's history is the sequence of the chain records  *)
(* that touch the item, each record once and in chain order.               *)
(***************************************************************************)
Touches(data, h) ==
    IF data.type \in {"registerHerb", "verifyReceipt", "fraudAlert", "transferHerb"}
    THEN data.herbID = h
    ELSE IF data.type = "useHerb"
    THEN \E i \in 1..Len(data.usedBatches) : data.usedBatches[i].herbID = h
    ELSE FALSE

RECURSIVE RecordsTouching(_, _, _)
RecordsTouching(ch, h, n) ==
    IF n = 0 THEN << >>
    ELSE IF Touches(ch[n].data, h)
    THEN Append(RecordsTouching(ch, h, n - 1), ch[n].data)
    ELSE RecordsTouching(ch, h, n - 1)

C32_Original ==
    \A h \in (DOMAIN metadata) \cap HerbIDs :
        metadata[h].history = RecordsTouching(chain, h, Len(chain))

(***************************************************************************)
(* C33, as stated: a consume succeeds only if, for every item, the units   *)
(* used summed over all the entries that name the item are at most the     *)
(* quantity the manufacturer holds of it.                                  *)
(***************************************************************************)
C33_Original ==
    [][(AppendedOne /\ LastData(chain').type = "useHerb") =>
          LET d == LastData(chain')
          IN \A i \in 1..Len(d.usedBatches) :
                TotalUnits(d.usedBatches, d.usedBatches[i].herbID)
                    <= Held(inventories, d.manufacturerID, d.usedBatches[i].herbID)
      ]_vars

(***************************************************************************)
(* C34, as stated: a successful transfer does not raise the quantity of    *)
(* the sender's entry and does not lower the quantity of the receiver's    *)
(* entry; a successful consume raises the quantity of no entry it debits.  *)
(***************************************************************************)
C34_Original ==
    [][AppendedOne =>
          LET d == LastData(chain')
          IN /\ d.type = "transferHerb" =>
                  /\ Held(inventories', d.fromID, d.herbID)
                        <= Held(inventories, d.fromID, d.herbID)
                  /\ Held(inventories', d.toID, d.herbID)
                        >= Held(inventories, d.toID, d.herbID)
             /\ d.type = "useHerb" =>
                  \A i \in 1..Len(d.usedBatches) :
                      Held(inventories', d.manufacturerID, d.usedBatches[i].herbID)
                        <= Held(inventories, d.manufacturerID, d.usedBatches[i].herbID)
      ]_vars

(***************************************************************************)
(* C35, as stated: the quantities of an item summed over all inventories   *)
(* are 0 while the item is not verified, equal the measured quantity right *)
(* after the verification, are left unchanged by a transfer, go down by    *)
(* the units consumed on a consume, and never go up once the item is       *)
(* verified.                                                               *)
(***************************************************************************)
RECURSIVE SumOver(_, _, _)
SumOver(inv, actors, h) ==
    IF actors = {} THEN 0
    ELSE LET a == CHOOSE x \in actors : TRUE
         IN Held(inv, a, h) + SumOver(inv, actors \ {a}, h)

\* the quantity of item h all actors hold together
TotalHeld(inv, h) == SumOver(inv, DOMAIN inv, h)

C35_Original ==
    /\ [](\A h \in DOMAIN metadata :
            metadata[h].status # "verified" => TotalHeld(inventories, h) = 0)
    /\ [][/\ \A h \in DOMAIN metadata :
                metadata[h].status = "verified" =>
                    TotalHeld(inventories', h) <= TotalHeld(inventories, h)
          /\ AppendedOne =>
                LET d == LastData(chain')
                IN /\ d.type = "verifyReceipt" =>
                        TotalHeld(inventories', d.herbID) = d.verifiedQuantity
                   /\ d.type = "transferHerb" =>
                        TotalHeld(inventories', d.herbID)
                            = TotalHeld(inventories, d.herbID)
                   /\ d.type = "useHerb" =>
                        \A i \in 1..Len(d.usedBatches) :
                            LET h == d.usedBatches[i].herbID
                            IN TotalHeld(inventories', h) =
                                   TotalHeld(inventories, h)
                                       - TotalUnits(d.usedBatches, h)
         ]_vars

(***************************************************************************)
(* C36: in every reachable state every item of every inventory is in the   *)
(* registry with the status verified: an item that is pending or disputed  *)
(* is in no inventory.                                                     *)
(***************************************************************************)
C36_OnlyVerifiedHeld ==
    \A a \in DOMAIN inventories : \A h \in DOMAIN inventories[a] :
        /\ h \in DOMAIN metadata
        /\ metadata[h].status = "verified"

\* one herb is held by two actors while another herb of the registry is
\* pending or disputed and in no inventory
C36_Witness ==
    /\ \E h \in HerbIDs :
          /\ h \in DOMAIN inventories["SUPPLIER-001"]
          /\ h \in DOMAIN inventories["MANU-001"]
    /\ \E g \in HerbIDs :
          /\ g \in DOMAIN metadata
          /\ metadata[g].status # "verified"
          /\ \A a \in DOMAIN inventories : g \notin DOMAIN inventories[a]

(***************************************************************************)
(* C37, as stated: in every reachable state, also after the state was      *)
(* saved and loaded again between operations, the status of an item's      *)
(* RegisterHerb record in the chain is the status of its master record.    *)
(***************************************************************************)
C37_Original ==
    \A i \in 2..Len(chain) :
        chain[i].data.type = "registerHerb" =>
            chain[i].data.status = metadata[chain[i].data.herbID].status

(***************************************************************************)
(* C38, as stated: a step never removes or reorders blocks and never       *)
(* changes the hash, the previousHash or the timestamp of a block of the   *)
(* chain; a call that succeeds or ends in FraudDetected appends exactly    *)
(* one block, and every other call appends none.                           *)
(***************************************************************************)
\* chain ch2 keeps the blocks of ch1 in place and adds n blocks
Extends(ch1, ch2, n) ==
    /\ Len(ch2) = Len(ch1) + n
    /\ \A i \in 1..Len(ch1) :
          /\ ch2[i].hash = ch1[i].hash
          /\ ch2[i].previousHash = ch1[i].previousHash
          /\ ch2[i].timestamp = ch1[i].timestamp

AppendsAsStated(r) ==
    Extends(chain, r.st.chain,
            IF r.success \/ r.kind = "FraudDetected" THEN 1 ELSE 0)

C38_Original ==
    /\ [][Extends(chain, chain', 0) \/ Extends(chain, chain', 1)]_vars
    /\ [](\A h \in ArgHerbs :
            /\ \A c \in ActorIDs :
                  AppendsAsStated(registerHerb(Engine, c, h, NameOf(h), Place, 100,
                                               UnitOf(h), RegisterQuality))
            /\ \A v \in ActorIDs : \A m \in MeasuredQuantities :
                  AppendsAsStated(verifyHerbReceipt(Engine, v, h, m))
            /\ AllTransfers(h, AppendsAsStated)
            /\ AllConsumes(h, AppendsAsStated))

(***************************************************************************)
(* C39: in every reachable state the chain holds, for each item of the     *)
(* registry, exactly one RegisterHerb record and at most one outcome       *)
(* record: a VerifyReceipt record exactly when the item is verified, a     *)
(* FraudAlert record exactly when it is disputed, none when it is pending; *)
(* the outcome record comes after the RegisterHerb record and before every *)
(* TransferHerb and UseHerb record of the item; and no record names an     *)
(* item outside the registry.                                              *)
(***************************************************************************)
\* the blocks whose record moves or consumes item h
MovesOf(h) ==
    {i \in 2..Len(chain) : /\ chain[i].data.type \in {"transferHerb", "useHerb"}
                           /\ Touches(chain[i].data, h)}

C39_OneOutcomePerItem ==
    /\ \A i \in 2..Len(chain) : \A h \in ArgHerbs \cup DOMAIN metadata :
          Touches(chain[i].data, h) => h \in DOMAIN metadata
    /\ \A h \in DOMAIN metadata :
          LET registered == RecordsOf(h, {"registerHerb"})
              verifiedBy == RecordsOf(h, {"verifyReceipt"})
              disputedBy == RecordsOf(h, {"fraudAlert"})
              outcomes == verifiedBy \cup disputedBy
          IN /\ Cardinality(registered) = 1
             /\ Cardinality(outcomes) <= 1
             /\ (verifiedBy # {}) <=> (metadata[h].status = "verified")
             /\ (disputedBy # {}) <=> (metadata[h].status = "disputed")
             /\ (outcomes = {}) <=> (metadata[h].status = "pending_verification")
             /\ \A o \in outcomes : \A r \in registered : r < o
             /\ \A t \in MovesOf(h) : \E o \in outcomes : o < t

\* a verified herb has been transferred and consumed, while the registry
\* also holds a disputed herb
C39_Witness ==
    /\ LastData(chain).type = "useHerb"
    /\ \E h \in HerbIDs : \E t \in MovesOf(h) : chain[t].data.type = "transferHerb"
    /\ \E g \in DOMAIN metadata : metadata[g].status = "disputed"

(***************************************************************************)
(* C40, as stated: after a successful register, transfer or consume the    *)
(* next operation of that role is refused unless the quality check of the  *)
(* role was started again after that success.  The handler refuses exactly *)
(* while the role's quality result is null, and an analysis callback sets  *)
(* it whenever it runs; so a success of a role must leave no analysis of   *)
(* that role pending, whose check was started before the success: its      *)
(* callback would let the next operation pass with no check started since. *)
(***************************************************************************)
QualityDataOf(role) ==
    IF role = "collector" THEN collectorQualityData
    ELSE IF role = "supplier" THEN supplierQualityData
    ELSE manufacturerQualityData

RecordTypeOf(role) ==
    IF role = "collector" THEN "registerHerb"
    ELSE IF role = "supplier" THEN "transferHerb"
    ELSE "useHerb"

C40_Original ==
    [][\A role \in Roles :
          (/\ AppendedOne
           /\ LastData(chain').type = RecordTypeOf(role)
           /\ QualityDataOf(role) # Null
           /\ QualityDataOf(role)' = Null) =>
              \A i \in 1..Len(timers') : timers'[i].role # role
      ]_vars

====
